---- MODULE Spec2Model ----
(***************************************************************************)
(* Model of borg-backup.py: the run of main() over the configured          *)
(* repositories, with every external command (borg info / create / prune,  *)
(* sshfs, fusermount), the keyring lookup and the getpass prompt as        *)
(* environment steps whose result is chosen nondeterministically.          *)
(*                                                                         *)
(* Text values (host names, identities, paths, snapshot names) are         *)
(* sequences of tokens; str.format and "+" are concatenation (\o).         *)
(* Repository paths are opaque strings: the program never takes them       *)
(* apart.                                                                  *)
(***************************************************************************)
EXTENDS Naturals, Sequences, FiniteSets, TLC

VARIABLES config, hostname, exists, env, password, pc, r, h, log, queries,
          tmpdirs, mounted, visited, out

vars == <<config, hostname, exists, env, password, pc, r, h, log, queries,
          tmpdirs, mounted, visited, out>>

----------------------------------------------------------------------------
(* Bounds of the model *)

\* at most this many repositories in the configuration
MaxRepos == 2
\* at most this many remote identities in the configuration
MaxHosts == 2
\* at most this many external commands of one run exit non-zero
MaxFailures == 2

----------------------------------------------------------------------------
(* Input domains *)

AllRepos == <<"/backup/r1", "/backup/r2", "/backup/r3">>

\* remote_folders in document order: identity -> folders
\* (two users of the host "ab", whose name starts with the local host name,
\* and a user of a host named like the local host)
AllRemote == << [host |-> <<"u", "@", "a", "b">>, folders |-> << <<"/data">> >>],
                [host |-> <<"v", "@", "a", "b">>, folders |-> << <<"/etc">>, <<"/srv">> >>],
                [host |-> <<"u", "@", "a">>, folders |-> << <<"/data">> >>] >>

\* socket.gethostname()
HostNames == { <<"a">> }

\* what the operator may type at the getpass prompt
Typed == {"t1", "t2"}

\* exit statuses of an external command
ExitCodes == {0, 1}

\* what keyring.get_password may do: raise (also: keyring not importable),
\* return None, return "", return a secret
KeyringOutcomes == {"raise", "none", "", "kr"}

\* password_store settings of the document: a full key pair, a partial one
PasswordStore(kind) ==
  IF kind = "pair" THEN ("system" :> "sys") @@ ("user" :> "usr")
  ELSE ("system" :> "sys")

Opt(cond, k, v, base) == IF cond THEN (k :> v) @@ base ELSE base

\* a settings document: a key is present or absent
Document(p, s, n, m) ==
  Opt(p # "absent", "password", p,
  Opt(s # "absent", "password_store", PasswordStore(s),
  Opt(n > 0, "repositories", SubSeq(AllRepos, 1, n),
  Opt(m > 0, "remote_folders", SubSeq(AllRemote, 1, m),
      ("excludes" :> << <<"/home/u/cache">> >>)
      @@ ("backup_folders" :> << <<"/home/u">> >>)
      @@ ("options" :> <<"--stats">>)))))

\* the documents of the model: every credential setting with every number of
\* repositories; every number of repositories with at most one remote
\* identity; every number of remote identities with at most one repository;
\* and two repositories with two remote identities
Documents ==
  { Document(p, s, n, 0) : p \in {"absent", "lit"},
                           s \in {"absent", "pair", "partial"},
                           n \in 0..MaxRepos }
  \cup { Document("lit", "absent", n, m) : n \in 0..MaxRepos, m \in {0, 1} }
  \cup { Document("lit", "absent", n, m) : n \in {0, 1}, m \in 0..MaxHosts }
  \cup { Document("lit", "absent", 2, 2) }

----------------------------------------------------------------------------
(* BorgConfig *)

get_config(name, default_value) ==
  IF name \in DOMAIN config THEN config[name] ELSE default_value

get_borg_options == get_config("options", <<>>)
get_remote_folders == get_config("remote_folders", <<>>)
get_repositories == get_config("repositories", <<>>)
get_excludes == get_config("excludes", <<>>)
get_backup_folders == get_config("backup_folders", <<>>)
get_password_cfg == get_config("password", "")

\* get_password_store: the default is a defaultdict(str), whose lookup of
\* any key gives ""; a dict of the document raises KeyError on a missing key
store_has(key) ==
  IF "password_store" \in DOMAIN config
    THEN key \in DOMAIN config["password_store"]
    ELSE TRUE
store_get(key) ==
  IF "password_store" \in DOMAIN config
    THEN config["password_store"][key]
    ELSE ""

----------------------------------------------------------------------------
(* Text helpers *)

\* "{}-{}".format(a, b)
Dash(a, b) == a \o <<"-">> \o b

list_prefix(l, prefix) == [i \in DOMAIN l |-> prefix \o l[i]]

\* str.split(sep): the parts of s between the occurrences of sep
RECURSIVE SplitFrom(_, _, _)
SplitFrom(s, sep, cur) ==
  IF s = <<>> THEN <<cur>>
  ELSE IF Head(s) = sep THEN <<cur>> \o SplitFrom(Tail(s), sep, <<>>)
  ELSE SplitFrom(Tail(s), sep, Append(cur, Head(s)))

split(s, sep) == SplitFrom(s, sep, <<>>)

\* a variant that takes the user part for the host name
hostname_of_user(host) == split(host, "@")[1]

\* user, hostname = host.split("@")
hostname_of(host) == split(host, "@")[2]

\* TMP_DIR = "/tmp/backup/{}".format(host)
TMP_DIR(host) == <<"/tmp/backup/">> \o host

\* a variant that reads the clock again at every use
BACKUP_DATE_per_use == IF Len(log) > 3 THEN <<"TS+1">> ELSE <<"TS">>

\* BACKUP_DATE, taken once when the module is loaded
BACKUP_DATE == <<"TS">>

----------------------------------------------------------------------------
(* Command lines, as records of their parts *)

NoText == <<>>

Blank == [op |-> "", repo |-> "", host |-> NoText, target |-> NoText,
          name |-> NoText, prefix |-> NoText, folders |-> <<>>,
          excludes |-> <<>>, options |-> <<>>, keep |-> <<>>,
          input |-> "", rc |-> 0, env |-> ""]

\* borg create {options} {repo}::{name} {folders} {excludes} --exclude-if-present .nobackup
create_cmd(options, repo, name, folders, excludes) ==
  [Blank EXCEPT !.op = "create", !.repo = repo, !.name = name,
                !.folders = folders, !.excludes = excludes,
                !.options = options]

\* borg prune --list --stats -v {repo} --keep-daily=.. --prefix "{prefix}"
prune_cmd(repo, prefix) ==
  [Blank EXCEPT !.op = "prune", !.repo = repo, !.prefix = prefix,
                !.keep = <<7, 4, 6, 0>>]

\* borg info {repo}
info_cmd(repo) == [Blank EXCEPT !.op = "info", !.repo = repo]

\* sshfs {host}:/ {TMP_DIR}
sshfs_cmd(repo, host) ==
  [Blank EXCEPT !.op = "sshfs", !.repo = repo, !.host = host,
                !.target = TMP_DIR(host)]

\* fusermount -u {TMP_DIR}
fusermount_cmd(repo, host) ==
  [Blank EXCEPT !.op = "fusermount", !.repo = repo, !.host = host,
                !.target = TMP_DIR(host)]

\* getpass.getpass("Enter Password for repo {}:")
getpass_ev(repo, typed) ==
  [Blank EXCEPT !.op = "getpass", !.repo = repo, !.input = typed]

Failures(l) == Cardinality({i \in DOMAIN l : l[i].rc # 0})

\* the exit statuses the environment may still produce
MayExit(rc) == rc = 0 \/ Failures(log) < MaxFailures

\* run_cmd: the command runs with the ambient BORG_PASSPHRASE and exits rc
run_cmd(cmd, rc) == Append(log, [cmd EXCEPT !.rc = rc, !.env = env])

----------------------------------------------------------------------------
(* The mount table, as sshfs and fusermount leave it *)

\* sshfs that exits 0 has mounted the path; one that exits non-zero leaves
\* the mount table as it was
after_sshfs(path, rc) == IF rc = 0 THEN mounted \cup {path} ELSE mounted

\* fusermount -u that exits 0 has released the path; one that exits
\* non-zero has released nothing: the path stays mounted (busy), unless it
\* was gone already
after_fusermount(path, rc) ==
  IF rc = 0 THEN {mounted \ {path}} ELSE {mounted, mounted \ {path}}

----------------------------------------------------------------------------
(* Decisions of the code *)

\* a variant that takes every configured path for an existing one
path_exists_always(repo) == TRUE

\* pathlib.Path(repo).exists()
path_exists(repo) == exists[repo]

\* a variant that takes every exit status of borg info for a success
borg_test_password_any(retcode) == TRUE

\* borg_test_password: retcode == 0
borg_test_password(retcode) == retcode = 0

\* a variant that goes on after a failed sshfs
mount_ok_any(retval) == TRUE

\* backup_create_remote: if retval == 0
mount_ok(retval) == retval = 0

\* a variant that asks the keyring whatever the document says
needs_lookup_always(p) == TRUE

\* main: if password == ""
needs_lookup(p) == p = ""

\* a variant that hands on whatever the lookup gave
get_password_unchecked(outcome) == outcome

\* get_password: what the keyring's answer becomes. An exception, a None
\* (len(None) raises) and an empty string (bare raise) all end in the except
\* branch
get_password(outcome) ==
  IF outcome = "raise" THEN ""
  ELSE IF outcome = "none" THEN ""
  ELSE IF outcome = "" THEN ""
  ELSE outcome

----------------------------------------------------------------------------
(* State *)

Repo == get_repositories[r]
Remote == get_remote_folders[h]

Say(msg, repo) == Append(out, [msg |-> msg, repo |-> repo])

Init ==
  /\ config \in Documents
  /\ hostname \in HostNames
  /\ exists \in [{get_repositories[i] : i \in DOMAIN get_repositories} -> BOOLEAN]
  /\ env = "inherited"
  /\ password = ""
  /\ pc = "resolve"
  /\ r = 1
  /\ h = 1
  /\ log = <<>>
  /\ queries = <<>>
  /\ tmpdirs = {}
  /\ mounted = {}
  /\ visited = <<>>
  /\ out = <<>>

----------------------------------------------------------------------------
(* main *)

\* lines 113-121: the passphrase of the document, else the keyring's
main_resolve ==
  /\ pc = "resolve"
  /\ \E k \in KeyringOutcomes :
       LET p0 == get_password_cfg
           asks == needs_lookup(p0) /\ store_has("system") /\ store_has("user")
           p1 == IF asks THEN get_password(k) ELSE p0
       IN /\ password' = p1
          /\ env' = p1
          /\ queries' = IF asks
                          THEN Append(queries, [system |-> store_get("system"),
                                                user |-> store_get("user"),
                                                result |-> k])
                          ELSE queries
  /\ pc' = "repo_loop"
  /\ UNCHANGED <<config, hostname, exists, r, h, log, tmpdirs, mounted,
                 visited, out>>

\* line 122: the for loop is exhausted
main_done ==
  /\ pc = "repo_loop"
  /\ r > Len(get_repositories)
  /\ pc' = "done"
  /\ UNCHANGED <<config, hostname, exists, env, password, r, h, log, queries,
                 tmpdirs, mounted, visited, out>>

\* a variant that leaves the loop at a missing repository
main_missing_break ==
  /\ pc = "repo_loop"
  /\ r <= Len(get_repositories)
  /\ ~path_exists(Repo)
  /\ visited' = Append(visited, Repo)
  /\ out' = Say("missing", Repo)
  /\ r' = Len(get_repositories) + 1
  /\ UNCHANGED <<config, hostname, exists, env, password, pc, h, log, queries,
                 tmpdirs, mounted>>

\* lines 123-125: the repository path does not exist
main_missing ==
  /\ pc = "repo_loop"
  /\ r <= Len(get_repositories)
  /\ ~path_exists(Repo)
  /\ visited' = Append(visited, Repo)
  /\ out' = Say("missing", Repo)
  /\ r' = r + 1
  /\ UNCHANGED <<config, hostname, exists, env, password, pc, h, log, queries,
                 tmpdirs, mounted>>

\* line 123: the repository path exists
main_enter ==
  /\ pc = "repo_loop"
  /\ r <= Len(get_repositories)
  /\ path_exists(Repo)
  /\ visited' = Append(visited, Repo)
  /\ pc' = "validate"
  /\ UNCHANGED <<config, hostname, exists, env, password, r, h, log, queries,
                 tmpdirs, mounted, out>>

\* line 127: the probe of the while condition
main_validate ==
  /\ pc = "validate"
  /\ \E rc \in ExitCodes :
       /\ MayExit(rc)
       /\ log' = run_cmd(info_cmd(Repo), rc)
       /\ IF borg_test_password(rc)
            THEN pc' = "confirm" /\ out' = Say("got password", Repo)
            ELSE pc' = "prompt" /\ out' = out
  /\ UNCHANGED <<config, hostname, exists, env, password, r, h, queries,
                 tmpdirs, mounted, visited>>

\* a variant that keeps what was typed in the local variable only
main_prompt_no_install ==
  /\ pc = "prompt"
  /\ \E t \in Typed :
       /\ log' = Append(log, [getpass_ev(Repo, t) EXCEPT !.env = env])
       /\ password' = t
  /\ pc' = "validate"
  /\ UNCHANGED <<config, hostname, exists, env, r, h, queries, tmpdirs,
                 mounted, visited, out>>

\* lines 128-129: the prompt and the installation of what was typed
main_prompt ==
  /\ pc = "prompt"
  /\ \E t \in Typed :
       /\ log' = Append(log, [getpass_ev(Repo, t) EXCEPT !.env = env])
       /\ password' = t
       /\ env' = t
  /\ pc' = "validate"
  /\ UNCHANGED <<config, hostname, exists, r, h, queries, tmpdirs, mounted,
                 visited, out>>

\* a variant that goes back to the prompt when the second probe fails
main_confirm_retry ==
  /\ pc = "confirm"
  /\ \E rc \in ExitCodes :
       /\ MayExit(rc)
       /\ log' = run_cmd(info_cmd(Repo), rc)
       /\ IF borg_test_password(rc)
            THEN pc' = "create" /\ out' = Say("creating", Repo)
            ELSE pc' = "prompt" /\ out' = out
  /\ UNCHANGED <<config, hostname, exists, env, password, r, h, queries,
                 tmpdirs, mounted, visited>>

\* lines 132-133 and 139-140: the probe of the if
main_confirm ==
  /\ pc = "confirm"
  /\ \E rc \in ExitCodes :
       /\ MayExit(rc)
       /\ log' = run_cmd(info_cmd(Repo), rc)
       /\ IF borg_test_password(rc)
            THEN /\ pc' = "create"
                 /\ out' = Say("creating", Repo)
                 /\ r' = r
            ELSE /\ pc' = "repo_loop"
                 /\ out' = Say("skipping", Repo)
                 /\ r' = r + 1
  /\ UNCHANGED <<config, hostname, exists, env, password, h, queries, tmpdirs,
                 mounted, visited>>

\* a variant that gives the repository up when borg create fails
main_create_abort ==
  /\ pc = "create"
  /\ \E rc \in ExitCodes :
       /\ MayExit(rc)
       /\ log' = run_cmd(create_cmd(get_borg_options, Repo,
                                    Dash(hostname, BACKUP_DATE),
                                    get_backup_folders, get_excludes), rc)
       /\ IF rc = 0
            THEN pc' = "prune" /\ r' = r /\ out' = Say("pruning", Repo)
            ELSE pc' = "repo_loop" /\ r' = r + 1 /\ out' = out
  /\ UNCHANGED <<config, hostname, exists, env, password, h, queries, tmpdirs,
                 mounted, visited>>

\* lines 134-135: backup_create of the local folders
main_create ==
  /\ pc = "create"
  /\ \E rc \in ExitCodes :
       /\ MayExit(rc)
       /\ log' = run_cmd(create_cmd(get_borg_options, Repo,
                                    Dash(hostname, BACKUP_DATE),
                                    get_backup_folders, get_excludes), rc)
  /\ out' = Say("pruning", Repo)
  /\ pc' = "prune"
  /\ UNCHANGED <<config, hostname, exists, env, password, r, h, queries,
                 tmpdirs, mounted, visited>>

\* a variant that ends the run where the local prune fails
main_prune_exit ==
  /\ pc = "prune"
  /\ \E rc \in ExitCodes :
       /\ MayExit(rc)
       /\ log' = run_cmd(prune_cmd(Repo, hostname), rc)
       /\ IF rc = 0
            THEN pc' = "remote_loop" /\ out' = Say("remote", Repo)
            ELSE pc' = "exited" /\ out' = out
  /\ h' = 1
  /\ UNCHANGED <<config, hostname, exists, env, password, r, queries, tmpdirs,
                 mounted, visited>>

\* lines 136-138: backup_prune with the local host name, then the call of
\* backup_create_remote
main_prune ==
  /\ pc = "prune"
  /\ \E rc \in ExitCodes :
       /\ MayExit(rc)
       /\ log' = run_cmd(prune_cmd(Repo, hostname), rc)
  /\ out' = Say("remote", Repo)
  /\ h' = 1
  /\ pc' = "remote_loop"
  /\ UNCHANGED <<config, hostname, exists, env, password, r, queries, tmpdirs,
                 mounted, visited>>

----------------------------------------------------------------------------
(* backup_create_remote(options, repo, BACKUP_DATE, remote_folders, excludes) *)

\* line 50: the for loop is exhausted, back in main's loop
remote_done ==
  /\ pc = "remote_loop"
  /\ h > Len(get_remote_folders)
  /\ r' = r + 1
  /\ pc' = "repo_loop"
  /\ UNCHANGED <<config, hostname, exists, env, password, h, log, queries,
                 tmpdirs, mounted, visited, out>>

\* a variant that leaves the loop at the first failed sshfs
remote_mount_break ==
  /\ pc = "remote_loop"
  /\ h <= Len(get_remote_folders)
  /\ Len(split(Remote.host, "@")) = 2
  /\ tmpdirs' = tmpdirs \cup {TMP_DIR(Remote.host)}
  /\ \E rc \in ExitCodes :
       /\ MayExit(rc)
       /\ log' = run_cmd(sshfs_cmd(Repo, Remote.host), rc)
       /\ mounted' = after_sshfs(TMP_DIR(Remote.host), rc)
       /\ IF mount_ok(rc)
            THEN pc' = "r_create" /\ h' = h
            ELSE pc' = "remote_loop" /\ h' = Len(get_remote_folders) + 1
  /\ UNCHANGED <<config, hostname, exists, env, password, r, queries, visited,
                 out>>

\* lines 51-56: mkdir of the mount path, sshfs, and the test of its status
remote_mount ==
  /\ pc = "remote_loop"
  /\ h <= Len(get_remote_folders)
  /\ Len(split(Remote.host, "@")) = 2
  /\ tmpdirs' = tmpdirs \cup {TMP_DIR(Remote.host)}
  /\ \E rc \in ExitCodes :
       /\ MayExit(rc)
       /\ log' = run_cmd(sshfs_cmd(Repo, Remote.host), rc)
       /\ mounted' = after_sshfs(TMP_DIR(Remote.host), rc)
       /\ IF mount_ok(rc)
            THEN pc' = "r_create" /\ h' = h
            ELSE pc' = "remote_loop" /\ h' = h + 1
  /\ UNCHANGED <<config, hostname, exists, env, password, r, queries, visited,
                 out>>

\* a variant that leaves the exclusion patterns out of the remote capture
remote_create_no_excludes ==
  /\ pc = "r_create"
  /\ \E rc \in ExitCodes :
       /\ MayExit(rc)
       /\ log' = run_cmd([create_cmd(<<"--files-cache ctime,size">> \o get_borg_options,
                                     Repo,
                                     Dash(hostname_of(Remote.host), BACKUP_DATE),
                                     list_prefix(Remote.folders, TMP_DIR(Remote.host)),
                                     <<>>)
                           EXCEPT !.host = Remote.host], rc)
  /\ pc' = "r_umount"
  /\ UNCHANGED <<config, hostname, exists, env, password, r, h, queries,
                 tmpdirs, mounted, visited, out>>

\* lines 57-58: backup_create of the folders under the mount path
remote_create ==
  /\ pc = "r_create"
  /\ \E rc \in ExitCodes :
       /\ MayExit(rc)
       /\ log' = run_cmd([create_cmd(<<"--files-cache ctime,size">> \o get_borg_options,
                                     Repo,
                                     Dash(hostname_of(Remote.host), BACKUP_DATE),
                                     list_prefix(Remote.folders, TMP_DIR(Remote.host)),
                                     get_excludes)
                           EXCEPT !.host = Remote.host], rc)
  /\ pc' = "r_umount"
  /\ UNCHANGED <<config, hostname, exists, env, password, r, h, queries,
                 tmpdirs, mounted, visited, out>>

\* a variant that releases the mount only after a successful borg create
remote_umount_if_created ==
  /\ pc = "r_umount"
  /\ IF log[Len(log)].rc = 0
       THEN \E rc \in ExitCodes :
              /\ MayExit(rc)
              /\ log' = run_cmd(fusermount_cmd(Repo, Remote.host), rc)
              /\ mounted' \in after_fusermount(TMP_DIR(Remote.host), rc)
       ELSE log' = log /\ mounted' = mounted
  /\ pc' = "r_prune"
  /\ UNCHANGED <<config, hostname, exists, env, password, r, h, queries,
                 tmpdirs, visited, out>>

\* lines 59-60: fusermount -u
remote_umount ==
  /\ pc = "r_umount"
  /\ \E rc \in ExitCodes :
       /\ MayExit(rc)
       /\ log' = run_cmd(fusermount_cmd(Repo, Remote.host), rc)
       /\ mounted' \in after_fusermount(TMP_DIR(Remote.host), rc)
  /\ pc' = "r_prune"
  /\ UNCHANGED <<config, hostname, exists, env, password, r, h, queries,
                 tmpdirs, visited, out>>

\* line 61: backup_prune with the remote host name
remote_prune ==
  /\ pc = "r_prune"
  /\ \E rc \in ExitCodes :
       /\ MayExit(rc)
       /\ log' = run_cmd([prune_cmd(Repo, hostname_of(Remote.host))
                           EXCEPT !.host = Remote.host], rc)
  /\ h' = h + 1
  /\ pc' = "remote_loop"
  /\ UNCHANGED <<config, hostname, exists, env, password, r, queries, tmpdirs,
                 mounted, visited, out>>

----------------------------------------------------------------------------

Next ==
  \/ main_resolve
  \/ main_done
  \/ main_missing
  \/ main_enter
  \/ main_validate
  \/ main_prompt
  \/ main_confirm
  \/ main_create
  \/ main_prune
  \/ remote_done
  \/ remote_mount
  \/ remote_create
  \/ remote_umount
  \/ remote_prune

Spec == Init /\ [][Next]_vars

----------------------------------------------------------------------------
(* The run with no cap on the failures of the first probe.  The log keeps   *)
(* the history of a bounded number of failed commands; the while loop of    *)
(* lines 127-129 has no such bound, so its further turns are steps that     *)
(* only change the installed passphrase.                                    *)

\* line 127: borg info fails once more; the loop body is entered
main_validate_unrecorded ==
  /\ pc = "validate"
  /\ ~MayExit(1)
  /\ ~borg_test_password(1)
  /\ pc' = "prompt_unrecorded"
  /\ UNCHANGED <<config, hostname, exists, env, password, r, h, log, queries,
                 tmpdirs, mounted, visited, out>>

\* lines 128-129: the operator answers, the answer is installed
main_prompt_unrecorded ==
  /\ pc = "prompt_unrecorded"
  /\ \E t \in Typed :
       /\ password' = t
       /\ env' = t
  /\ pc' = "validate"
  /\ UNCHANGED <<config, hostname, exists, r, h, log, queries, tmpdirs,
                 mounted, visited, out>>

NextLive ==
  \/ Next
  \/ main_validate_unrecorded
  \/ main_prompt_unrecorded

\* main() is one thread of blocking calls: while every subprocess returns
\* and the operator answers each prompt, the next step is always taken
SpecLive == Init /\ [][NextLive]_vars /\ WF_vars(NextLive)

----------------------------------------------------------------------------
(* Vocabulary of the properties: what the log of a run shows *)

Repos == get_repositories
Idents == [i \in DOMAIN get_remote_folders |-> get_remote_folders[i].host]

\* the positions of the log that are invocations of op for repository repo
At(op, repo) == {i \in DOMAIN log : log[i].op = op /\ log[i].repo = repo}

\* the pass over the k-th repository is over
PassDone(k) == k < r

IndexOf(repo) == CHOOSE k \in DOMAIN Repos : Repos[k] = repo

\* the folders of an identity as the document gives them
FoldersOf(host) ==
  LET k == CHOOSE j \in DOMAIN get_remote_folders : get_remote_folders[j].host = host
  IN get_remote_folders[k].folders

\* the paths below the mount path of an identity that a capture may read
MountedPaths(host) ==
  {<<"/tmp/backup/">> \o host \o FoldersOf(host)[k] : k \in DOMAIN FoldersOf(host)}

\* a create whose capture roots lie below the mount path of host
ReadsMountOf(e, host) ==
  /\ e.op = "create"
  /\ \E k \in DOMAIN e.folders : e.folders[k] \in MountedPaths(host)

\* the text of an identity after its "@"
AfterAt(host) ==
  LET k == CHOOSE j \in DOMAIN host : host[j] = "@"
  IN SubSeq(host, k + 1, Len(host))

\* the probe of line 132: the borg info that follows a successful borg info
\* of the same repository
ConfirmAt(j) ==
  /\ j > 1
  /\ log[j].op = "info"
  /\ log[j - 1].op = "info"
  /\ log[j - 1].repo = log[j].repo
  /\ log[j - 1].rc = 0

----------------------------------------------------------------------------
(* C1 *)

\* C1: a configured repository whose path does not exist gets no command at
\* all in the run: no borg info, no prompt, no create, no prune, no sshfs and
\* no fusermount is invoked for it, whatever happens for the others.
C1_MissingRepoUntouched ==
  \A k \in DOMAIN Repos :
    ~exists[Repos[k]] => \A i \in DOMAIN log : log[i].repo # Repos[k]

\* a finished run that passed a missing repository and then backed up an
\* existing one
C1_Witness ==
  /\ pc = "done"
  /\ \E k, l \in DOMAIN Repos :
       /\ k < l
       /\ ~exists[Repos[k]]
       /\ Repos[k] = visited[k]
       /\ exists[Repos[l]]
       /\ At("create", Repos[l]) # {}
       /\ At("prune", Repos[l]) # {}

----------------------------------------------------------------------------
(* C2 *)

\* C2: after an sshfs that exits non-zero, the next command of the run is the
\* sshfs of the next identity or the probe of the next repository, and the
\* pass of that repository holds no create that reads the identity's mount
\* path, no fusermount of that path and no prune invoked for that identity.
C2_FailedMountSkipsHost ==
  \A i \in DOMAIN log :
    (log[i].op = "sshfs" /\ log[i].rc # 0) =>
      /\ \A j \in DOMAIN log :
           log[j].repo = log[i].repo =>
             /\ ~ReadsMountOf(log[j], log[i].host)
             /\ ~(log[j].op = "create" /\ log[j].host = log[i].host)
             /\ ~(log[j].op = "fusermount" /\ log[j].target = log[i].target)
             /\ ~(log[j].op = "prune" /\ log[j].host = log[i].host)
      /\ i < Len(log) =>
           \/ log[i + 1].op = "sshfs" /\ log[i + 1].host # log[i].host
           \/ log[i + 1].op = "info" /\ log[i + 1].repo # log[i].repo

\* a finished run in which one identity's sshfs failed and another identity
\* of the same pass was mounted, captured, released and pruned
C2_Witness ==
  /\ pc = "done"
  /\ \E i, j \in DOMAIN log :
       /\ log[i].op = "sshfs" /\ log[i].rc # 0
       /\ log[j].op = "sshfs" /\ log[j].rc = 0
       /\ log[j].repo = log[i].repo
       /\ j + 3 <= Len(log)
       /\ log[j + 3].op = "prune"

----------------------------------------------------------------------------
(* C3 *)

\* C3: after an sshfs that exits 0 the next command is the create of that
\* identity and the one after it is the fusermount of that identity's mount
\* path, whatever the create's exit status; the pass holds one fusermount of
\* that path and no more, and it is there before any further sshfs and
\* before the pass ends.
C3_UnmountOnceAfterCreate ==
  \A i \in DOMAIN log :
    (log[i].op = "sshfs" /\ log[i].rc = 0) =>
      LET um == {j \in At("fusermount", log[i].repo) : log[j].target = log[i].target}
      IN /\ Cardinality(um) <= 1
         /\ \A j \in um : j = i + 2
         /\ i + 1 <= Len(log) =>
              /\ log[i + 1].op = "create"
              /\ log[i + 1].repo = log[i].repo
              /\ ReadsMountOf(log[i + 1], log[i].host)
         /\ i + 2 <= Len(log) => um = {i + 2}
         /\ (PassDone(IndexOf(log[i].repo))
             \/ \E j \in DOMAIN log : j > i /\ log[j].op = "sshfs") => um = {i + 2}

\* a run in which a mounted identity's create failed and its mount path was
\* released all the same, and another mounted identity's create succeeded
C3_Witness ==
  \E i, j \in DOMAIN log :
    /\ log[i].op = "sshfs" /\ log[i].rc = 0
    /\ i + 2 <= Len(log)
    /\ log[i + 1].op = "create" /\ log[i + 1].rc # 0
    /\ log[i + 2].op = "fusermount" /\ log[i + 2].target = TMP_DIR(log[i].host)
    /\ log[j].op = "sshfs" /\ log[j].rc = 0
    /\ j > i + 2
    /\ j + 2 <= Len(log)
    /\ log[j + 1].op = "create" /\ log[j + 1].rc = 0
    /\ log[j + 2].op = "fusermount"

----------------------------------------------------------------------------
(* C4 *)

\* the commands main itself invokes for a repository (not those of
\* backup_create_remote, which carry their identity)
LocalAt(op, repo) == {i \in At(op, repo) : log[i].host = NoText}

\* C4: when the probe of line 132 of an existing repository succeeds, the
\* next command is the local create targeting repo::{local host}-{timestamp},
\* the one after it is the prune of that repository with the local host name
\* as prefix, and only after these two comes the first sshfs of the pass (or,
\* with no remote identity, the next repository); main invokes that create
\* and that prune once each per repository, whatever the create's exit
\* status.
C4_CreateThenPruneThenRemote ==
  \A j \in DOMAIN log :
    (ConfirmAt(j) /\ log[j].rc = 0) =>
      LET repo == log[j].repo
          creates == LocalAt("create", repo)
          prunes == LocalAt("prune", repo)
      IN /\ exists[repo]
         /\ creates \subseteq {j + 1}
         /\ prunes \subseteq {j + 2}
         /\ \A i \in At("sshfs", repo) : i > j + 2
         /\ j + 1 <= Len(log) =>
              /\ creates = {j + 1}
              /\ log[j + 1].name = hostname \o <<"-">> \o <<"TS">>
         /\ j + 2 <= Len(log) =>
              /\ prunes = {j + 2}
              /\ log[j + 2].prefix = hostname
         /\ j + 3 <= Len(log) =>
              IF Idents # <<>>
                THEN /\ log[j + 3].op = "sshfs"
                     /\ log[j + 3].repo = repo
                     /\ log[j + 3].host = Idents[1]
                ELSE log[j + 3].op = "info" /\ log[j + 3].repo # repo
         /\ PassDone(IndexOf(repo)) => (creates = {j + 1} /\ prunes = {j + 2})

\* a run in which the local create of a repository failed and its prune and
\* the first sshfs of its pass followed
C4_Witness ==
  \E j \in DOMAIN log :
    /\ ConfirmAt(j) /\ log[j].rc = 0
    /\ j + 3 <= Len(log)
    /\ log[j + 1].op = "create" /\ log[j + 1].rc # 0
    /\ log[j + 2].op = "prune" /\ log[j + 2].prefix = hostname
    /\ log[j + 3].op = "sshfs"

----------------------------------------------------------------------------
(* C5 *)

\* C5: every create and every prune of a repository comes after a borg info
\* of that repository that exited 0, with no prompt and no other value of
\* BORG_PASSPHRASE between that borg info and the create or prune; so a
\* repository without a successful probe has no create and no prune.
C5_CreatePruneAfterGoodProbe ==
  \A j \in DOMAIN log :
    log[j].op \in {"create", "prune"} =>
      \E i \in At("info", log[j].repo) :
        /\ i < j
        /\ log[i].rc = 0
        /\ \A k \in i..j : log[k].env = log[i].env /\ log[k].op # "getpass"
        /\ \A k \in i..j : log[k].repo = log[j].repo

\* a finished run in which a repository was probed without success, a
\* passphrase was typed, and the create and the prunes that followed ran
\* under the typed passphrase
C5_Witness ==
  /\ pc = "done"
  /\ \E g, c, p \in DOMAIN log :
       /\ log[g].op = "getpass"
       /\ g < c /\ c < p
       /\ log[c].op = "create" /\ log[c].repo = log[g].repo
       /\ log[c].env = log[g].input
       /\ log[p].op = "prune" /\ log[p].host # NoText
       /\ log[p].repo = log[g].repo
       /\ log[g - 1].op = "info" /\ log[g - 1].rc # 0

----------------------------------------------------------------------------
(* C6 *)

\* the validation loop of line 127 exits: a successful borg info that does
\* not itself follow a successful one
LoopExitAt(i) ==
  /\ log[i].op = "info"
  /\ log[i].rc = 0
  /\ ~ConfirmAt(i)

Skipped(repo) == \E i \in DOMAIN out : out[i] = [msg |-> "skipping", repo |-> repo]

\* C6 as claimed: once the validation loop of an existing repository has
\* exited on a successful probe, the repository is never skipped as
\* unauthenticated and goes on to its local create, whatever a later probe
\* returns.
C6_NeverSkippedAfterLoop ==
  \A i \in DOMAIN log :
    LoopExitAt(i) =>
      /\ ~Skipped(log[i].repo)
      /\ i + 2 <= Len(log) => log[i + 2].op = "create"

\* C6 as amended: after the validation loop has exited, line 132 probes the
\* repository once more. If that probe exits 0 the repository is not skipped
\* and gets its local create, its local prune and the remote flow. If it
\* exits non-zero the repository is skipped: that probe is the last command
\* invoked for it (no prompt, no further probe, no create, prune or sshfs)
\* and the run goes on with the next repository. A repository is skipped in
\* no other case.
C6_SecondProbeDecides ==
  /\ \A i \in DOMAIN log :
       (LoopExitAt(i) /\ i + 1 <= Len(log)) =>
           /\ ConfirmAt(i + 1)
           /\ log[i + 1].repo = log[i].repo
           /\ log[i + 1].rc = 0 =>
                /\ ~Skipped(log[i].repo)
                /\ i + 2 <= Len(log) =>
                     log[i + 2].op = "create" /\ log[i + 2].repo = log[i].repo
                /\ i + 3 <= Len(log) =>
                     log[i + 3].op = "prune" /\ log[i + 3].repo = log[i].repo
                /\ PassDone(IndexOf(log[i].repo)) =>
                     /\ i + 3 <= Len(log)
                     /\ Cardinality(At("sshfs", log[i].repo)) = Len(Idents)
           /\ log[i + 1].rc # 0 =>
                /\ Skipped(log[i].repo)
                /\ PassDone(IndexOf(log[i].repo))
                /\ \A k \in DOMAIN log : k > i + 1 => log[k].repo # log[i].repo
  /\ \A k \in DOMAIN out :
       out[k].msg = "skipping" =>
         \E j \in DOMAIN log :
           ConfirmAt(j) /\ log[j].repo = out[k].repo /\ log[j].rc # 0

\* a finished run in which one repository was skipped at the probe of line
\* 132 and the next one was backed up
C6_Witness ==
  /\ pc = "done"
  /\ \E j \in DOMAIN log :
       /\ ConfirmAt(j) /\ log[j].rc # 0
       /\ Skipped(log[j].repo)
       /\ j + 3 <= Len(log)
       /\ log[j + 1].op = "info" /\ log[j + 1].rc = 0
       /\ log[j + 2].op = "info" /\ log[j + 2].rc = 0
       /\ log[j + 3].op = "create" /\ log[j + 3].repo # log[j].repo

----------------------------------------------------------------------------
(* C7 *)

\* the identities whose sshfs was invoked in the pass of repo, in the order
\* of the invocations
RECURSIVE MountedIn(_, _)
MountedIn(repo, n) ==
  IF n = 0 THEN <<>>
  ELSE IF log[n].op = "sshfs" /\ log[n].repo = repo
         THEN Append(MountedIn(repo, n - 1), log[n].host)
         ELSE MountedIn(repo, n - 1)

MountAttempts(repo) == MountedIn(repo, Len(log))

\* C7: in the pass of a repository the sshfs invocations follow the order of
\* the identities in the document, one per identity and none twice; and when
\* the pass of a repository that got its local prune is over, every
\* identity has had its sshfs, whatever the exit statuses of the commands of
\* the identities before it.
C7_EveryIdentityMountedOnce ==
  \A k \in DOMAIN Repos :
    LET m == MountAttempts(Repos[k])
    IN /\ Len(m) <= Len(Idents)
       /\ m = SubSeq(Idents, 1, Len(m))
       /\ (PassDone(k) /\ LocalAt("prune", Repos[k]) # {}) => m = Idents

\* a finished pass in which the first identity's fusermount and prune failed
\* and the second identity's sshfs was invoked after them
C7_Witness ==
  \E i \in DOMAIN log :
    /\ log[i].op = "sshfs" /\ log[i].rc = 0 /\ log[i].host = Idents[1]
    /\ i + 4 <= Len(log)
    /\ log[i + 2].op = "fusermount" /\ log[i + 2].rc # 0
    /\ log[i + 3].op = "prune" /\ log[i + 3].rc # 0
    /\ log[i + 4].op = "sshfs" /\ log[i + 4].host = Idents[2]
    /\ PassDone(IndexOf(log[i].repo))

\* a finished pass in which the first identity's sshfs failed and the second
\* identity's sshfs was invoked next
C7_WitnessMountFailed ==
  \E i \in DOMAIN log :
    /\ log[i].op = "sshfs" /\ log[i].rc # 0 /\ log[i].host = Idents[1]
    /\ i + 1 <= Len(log)
    /\ log[i + 1].op = "sshfs" /\ log[i + 1].host = Idents[2]
    /\ PassDone(IndexOf(log[i].repo))

----------------------------------------------------------------------------
(* C8 *)

\* C8: the repositories are visited in the order of the document, each once;
\* a finished run has visited all of them; and every existing repository
\* whose turn has come has been probed, whatever happened in the passes
\* before it.
C8_EveryRepoVisitedOnce ==
  /\ Len(visited) <= Len(Repos)
  /\ visited = SubSeq(Repos, 1, Len(visited))
  /\ pc = "done" => visited = Repos
  /\ pc # "resolve" => Len(visited) \in {r - 1, r}
  /\ \A k \in DOMAIN Repos :
       (PassDone(k) /\ exists[Repos[k]]) => At("info", Repos[k]) # {}
  /\ \A i \in DOMAIN log :
       (i < Len(log) /\ log[i].repo # log[i + 1].repo) =>
         \E k, l \in DOMAIN Repos :
           k < l /\ Repos[k] = log[i].repo /\ Repos[l] = log[i + 1].repo

\* a finished run whose first pass had a failed create and a failed
\* fusermount, and whose second repository was probed and backed up
C8_Witness ==
  /\ pc = "done"
  /\ Len(Repos) >= 2
  /\ \E c \in At("create", Repos[1]) : log[c].rc # 0
  /\ \E u \in At("fusermount", Repos[1]) : log[u].rc # 0
  /\ At("info", Repos[2]) # {}
  /\ At("create", Repos[2]) # {}
  /\ At("prune", Repos[2]) # {}

\* a finished run whose first repository is missing and whose second one was
\* probed and backed up
C8_WitnessMissing ==
  /\ pc = "done"
  /\ Len(Repos) >= 2
  /\ ~exists[Repos[1]]
  /\ At("create", Repos[2]) # {}

----------------------------------------------------------------------------
(* C9 *)

\* C9: when an sshfs exits 0, the command after that identity's fusermount
\* is a prune of the same repository with the text after the "@" of the
\* identity as prefix, whatever the create's exit status; it is the only
\* prune invoked for that identity in the pass, and it is there before any
\* further sshfs and before the pass ends.
C9_RemotePruneAfterUnmount ==
  \A i \in DOMAIN log :
    (log[i].op = "sshfs" /\ log[i].rc = 0) =>
      LET pr == {j \in At("prune", log[i].repo) : log[j].host = log[i].host}
      IN /\ Cardinality(pr) <= 1
         /\ \A j \in pr : j = i + 3
         /\ i + 3 <= Len(log) =>
              /\ log[i + 2].op = "fusermount"
              /\ pr = {i + 3}
              /\ log[i + 3].prefix = AfterAt(log[i].host)
              /\ log[i + 3].keep = <<7, 4, 6, 0>>
         /\ (PassDone(IndexOf(log[i].repo))
             \/ \E j \in DOMAIN log : j > i /\ log[j].op = "sshfs") => pr = {i + 3}

\* a run in which a mounted identity's create failed, its mount path was
\* released, its prune followed and the next identity's sshfs came after
C9_Witness ==
  \E i \in DOMAIN log :
    /\ log[i].op = "sshfs" /\ log[i].rc = 0
    /\ i + 4 <= Len(log)
    /\ log[i + 1].op = "create" /\ log[i + 1].rc # 0
    /\ log[i + 2].op = "fusermount"
    /\ log[i + 3].op = "prune" /\ log[i + 3].prefix = <<"a", "b">>
    /\ log[i + 4].op = "sshfs"

----------------------------------------------------------------------------
(* C10 *)

HasLiteral == "password" \in DOMAIN config /\ config["password"] # ""

\* C10: with a non-empty literal passphrase in the document the keyring is
\* never asked, and once the passphrase is installed BORG_PASSPHRASE holds
\* the literal value until a prompt; the first probe of the run runs under
\* it. This also holds with a password_store key pair in the document.
C10_LiteralPassphraseWins ==
  HasLiteral =>
    /\ queries = <<>>
    /\ (pc # "resolve" /\ \A i \in DOMAIN log : log[i].op # "getpass") =>
         env = config["password"]
    /\ log # <<>> => (log[1].op = "info" /\ log[1].env = config["password"])

\* a run with a literal passphrase and a full password_store key pair in
\* the document whose first probe has been invoked
C10_Witness ==
  /\ HasLiteral
  /\ "password_store" \in DOMAIN config
  /\ DOMAIN config["password_store"] = {"system", "user"}
  /\ log # <<>>
  /\ log[1].op = "info"

----------------------------------------------------------------------------
(* C11 *)

Creates == {i \in DOMAIN log : log[i].op = "create"}

\* C11 as claimed: every remote create targets
\* {remote host}-{local host}-{timestamp} and every local create targets
\* {local host}-{timestamp}.
C11_RemoteNameHasLocalHost ==
  \A i \in Creates :
    IF log[i].host = NoText
      THEN log[i].name = hostname \o <<"-", "TS">>
      ELSE log[i].name = AfterAt(log[i].host) \o <<"-">> \o hostname \o <<"-", "TS">>

\* C11 as amended: every remote create targets {remote host}-{timestamp},
\* the remote host being the text of the identity after its "@" (the local
\* host name is not part of it), and every local create targets
\* {local host}-{timestamp}; the timestamp is the same in every snapshot
\* name of the run.
C11_SnapshotNames ==
  \A i \in Creates :
    IF log[i].host = NoText
      THEN log[i].name = hostname \o <<"-", "TS">>
      ELSE log[i].name = AfterAt(log[i].host) \o <<"-", "TS">>

\* a run with a local create and, later, a remote create of a host with
\* another name than the local host
C11_Witness ==
  \E i, j \in Creates :
    /\ i < j
    /\ log[i].host = NoText
    /\ log[j].host # NoText
    /\ AfterAt(log[j].host) # hostname
    /\ log[j].name = <<"a", "b", "-", "TS">>

----------------------------------------------------------------------------
(* C12 *)

LocalCreates == {i \in Creates : log[i].host = NoText}
RemoteCreates == {i \in Creates : log[i].host # NoText}

\* the local create of the pass that the remote create j belongs to: the
\* last local create before j
PassCreateOf(j) ==
  {i \in LocalCreates : i < j /\ \A k \in LocalCreates : k < j => k <= i}

\* C12: every remote create comes after a local create, and it names the
\* repository and carries the exclusion patterns of the last local create
\* before it (the one of its pass), for every identity.
C12_RemoteCreateLikeLocal ==
  \A j \in RemoteCreates :
    /\ PassCreateOf(j) # {}
    /\ \A i \in PassCreateOf(j) :
         /\ log[j].repo = log[i].repo
         /\ log[j].excludes = log[i].excludes

\* a run whose second repository got a local create with a non-empty list
\* of exclusion patterns and then a remote create
C12_Witness ==
  \E j \in RemoteCreates :
    /\ Len(Repos) >= 2
    /\ log[j].repo = Repos[2]
    /\ log[j].excludes # <<>>
    /\ \E i \in PassCreateOf(j) : log[i].repo = Repos[2]
    /\ \E i \in LocalCreates : log[i].repo = Repos[1]

----------------------------------------------------------------------------
(* C13 *)

\* the credential the document resolves to: its literal passphrase, else
\* the secret the keyring returned, else nothing
ResolvedCredential ==
  IF HasLiteral THEN config["password"]
  ELSE IF queries # <<>> /\ queries[1].result \notin {"raise", "none", ""}
         THEN queries[1].result
         ELSE ""

\* the first probe of a repository: a borg info with no borg info of that
\* repository before it
FirstProbeAt(i) ==
  /\ log[i].op = "info"
  /\ \A k \in At("info", log[i].repo) : i <= k

\* C13: the first probe of every repository runs under the credential
\* resolved from the document, never under a value typed at the prompt of
\* an earlier repository.
C13_FirstProbeUnderResolved ==
  \A i \in DOMAIN log :
    FirstProbeAt(i) => log[i].env = ResolvedCredential

----------------------------------------------------------------------------
(* C14 *)

\* C14: a prompt comes right after a failed borg info of the same
\* repository and never after a successful one of that repository; the
\* value typed is BORG_PASSPHRASE from then on, and the next command is a
\* borg info of the same repository that runs under it.
C14_PromptOnlyAfterFailedProbe ==
  \A i \in DOMAIN log :
    log[i].op = "getpass" =>
      /\ i > 1
      /\ log[i - 1].op = "info"
      /\ log[i - 1].repo = log[i].repo
      /\ log[i - 1].rc # 0
      /\ \A k \in At("info", log[i].repo) : k < i => log[k].rc # 0
      /\ i = Len(log) => (env = log[i].input /\ pc = "validate")
      /\ i < Len(log) =>
           /\ log[i + 1].op = "info"
           /\ log[i + 1].repo = log[i].repo
           /\ log[i + 1].env = log[i].input

\* a run in which a repository was probed without success twice, two
\* different values were typed, the third probe succeeded and the local
\* create followed
C14_Witness ==
  \E i \in DOMAIN log :
    /\ i + 6 <= Len(log)
    /\ log[i].op = "info" /\ log[i].rc # 0
    /\ log[i + 1].op = "getpass"
    /\ log[i + 2].op = "info" /\ log[i + 2].rc # 0
    /\ log[i + 3].op = "getpass" /\ log[i + 3].input # log[i + 1].input
    /\ log[i + 4].op = "info" /\ log[i + 4].rc = 0
    /\ log[i + 4].env = log[i + 3].input
    /\ log[i + 6].op = "create"

----------------------------------------------------------------------------
(* C15 *)

\* the processing of a remote identity is under way: between its
\* successful sshfs and its prune
InRemoteBody == pc \in {"r_create", "r_umount", "r_prune"}

\* C15: whenever no remote identity is being processed (before the next
\* sshfs, before the next repository, at the end of the run) no mount path
\* is mounted, also after a fusermount that exited non-zero.
C15_NoMountOutlivesCapture ==
  ~InRemoteBody => mounted = {}

----------------------------------------------------------------------------
(* C16 *)

HasKeyPair ==
  /\ "password_store" \in DOMAIN config
  /\ {"system", "user"} \subseteq DOMAIN config["password_store"]

NoPromptYet == \A i \in DOMAIN log : log[i].op # "getpass"

\* C16: the keyring is asked only when the document has no literal
\* passphrase and has a password_store key pair; with neither of them the
\* keyring is not asked and the passphrase installed before the repository
\* loop is empty.
C16_KeyringOnlyWithKeyPair ==
  /\ queries # <<>> => (~HasLiteral /\ HasKeyPair)
  /\ (~HasLiteral /\ "password_store" \notin DOMAIN config) =>
       /\ queries = <<>>
       /\ (pc # "resolve" /\ NoPromptYet) => env = ""

----------------------------------------------------------------------------
(* C17 *)

KeyringGaveNothing ==
  queries = <<>> \/ queries[1].result \in {"raise", "none", ""}

\* C17: without a literal passphrase, a keyring lookup that raises, returns
\* None or returns "" leaves the installed passphrase empty, a secret it
\* returns is installed as it is, the keyring is asked at most once, and the
\* run goes on into the repository loop and visits every repository.
C17_KeyringFailureIsNoCredential ==
  ~HasLiteral =>
    /\ Len(queries) <= 1
    /\ (pc # "resolve" /\ NoPromptYet) =>
         /\ KeyringGaveNothing => env = ""
         /\ ~KeyringGaveNothing => env = queries[1].result
    /\ pc = "done" => visited = Repos

\* a finished run in which the keyring lookup raised and the first
\* repository was probed with an empty passphrase
C17_Witness ==
  /\ ~HasLiteral
  /\ pc = "done"
  /\ queries # <<>>
  /\ queries[1].result = "raise"
  /\ log # <<>>
  /\ log[1].op = "info"
  /\ log[1].env = ""
  /\ Creates # {}

\* a run in which the keyring returned a secret and the first repository
\* was probed with it
C17_WitnessSecret ==
  /\ ~HasLiteral
  /\ queries # <<>>
  /\ queries[1].result = "kr"
  /\ log # <<>>
  /\ log[1].env = "kr"

----------------------------------------------------------------------------
(* C18: termination *)

\* main's while loop of lines 127-129, at the k-th repository
InPromptLoop(k) ==
  /\ r = k
  /\ pc \in {"validate", "prompt", "prompt_unrecorded"}

\* the run is over and the for loop of line 122 has seen every repository
Finished == pc = "done" /\ visited = Repos

\* C18: while every subprocess returns and the operator answers, the run
\* finishes having visited every configured repository, whatever the exit
\* statuses of create, prune, sshfs and fusermount, unless from some point
\* on it stays in the probe/prompt loop of one repository (that is, unless
\* the first probe of that repository never succeeds).
C18_FinishesOrPromptLoop ==
  \/ <>Finished
  \/ \E k \in 1..MaxRepos : <>[]InPromptLoop(k)

\* a finished run over two repositories in which a create, a prune and a
\* mount or unmount failed, or the first probe failed and the operator
\* was asked
C18_Witness ==
  /\ Finished
  /\ Len(Repos) = MaxRepos
  /\ \E i \in DOMAIN log :
        /\ log[i].rc # 0
        /\ log[i].op \in {"create", "prune", "sshfs", "fusermount"}
  /\ \E i \in DOMAIN log : log[i].op = "getpass"

----------------------------------------------------------------------------
(* C19, C20: snapshot names and prune prefixes *)

Prunes == {i \in DOMAIN log : log[i].op = "prune"}

\* borg prune --prefix: the snapshots whose name starts with the prefix
StartsWith(name, prefix) ==
  /\ Len(prefix) <= Len(name)
  /\ SubSeq(name, 1, Len(prefix)) = prefix

\* whose snapshots a create writes, or a prune is meant to thin out: the
\* local host's, or those of the remote host of the identity
Scope(e) ==
  IF e.host = NoText
    THEN [remote |-> FALSE, host |-> hostname]
    ELSE [remote |-> TRUE, host |-> AfterAt(e.host)]

\* C19 as claimed: the prefix of a prune matches, among the snapshot names
\* the run gives to the same repository, only those of the prune's own
\* scope: the local prune no remote capture's name, a remote host's prune
\* neither the local name nor another remote host's.
C19_PruneMatchesOwnScopeOnly ==
  \A p \in Prunes :
    \A c \in Creates :
      (/\ log[p].repo = log[c].repo
       /\ StartsWith(log[c].name, log[p].prefix))
        => Scope(log[p]) = Scope(log[c])

\* C20 as claimed: no two creates of a run against the same repository
\* target the same snapshot name.
C20_DistinctSnapshotNames ==
  \A i \in Creates :
    \A j \in Creates :
      (i # j /\ log[i].repo = log[j].repo) => log[i].name # log[j].name
====
